---- MODULE Spec2Model ----
(***************************************************************************)
(* bin2hpp: a command-line tool that reads a file and writes a C++ header  *)
(* declaring its contents as a constexpr byte array (binary mode) or a     *)
(* constexpr string literal (text mode).  The model follows src/main.rs:   *)
(* one action per step of main, the formatters and generators as           *)
(* operators.  Text is a sequence of one-character strings, file contents  *)
(* and input data are sequences of bytes (0..255).                         *)
(***************************************************************************)
EXTENDS Integers, Sequences, FiniteSets, TLC

VARIABLES
    windows,        \* cfg(windows): selects LINE_ENDING
    cli_args,       \* the parsed CliArgs
    cwd_ok,         \* whether std::env::current_dir() succeeds
    fs,             \* the file system: path -> <<>> (absent) or <<entry>>
    fs0,            \* the file system when the process started
    pc,             \* position of main
    input_filename, \* Option: file_name() of the input path
    output_path,    \* Option: resolved output path
    symbol_name,    \* resolved symbol name
    buf,            \* bytes read from the input file
    formatted,      \* result of the formatter
    out_src,        \* result of the generator
    writer,         \* BufWriter: bytes buffered and not yet written
    stderr,         \* lines printed with eprintln!
    exit            \* "running", "SUCCESS", "FAILURE" or "PANIC"

vars == <<windows, cli_args, cwd_ok, fs, fs0, pc, input_filename, output_path,
          symbol_name, buf, formatted, out_src, writer, stderr, exit>>

----------------------------------------------------------------------------
(* Bounds of the model *)

\* longest input drawn exhaustively from SmallBytes
MaxLen == 2

----------------------------------------------------------------------------
(* Option<T>: None is the empty sequence, Some(x) the one-element sequence *)

None == <<>>
Some(x) == <<x>>
IsSome(o) == o # <<>>
Unwrap(o) == o[1]

----------------------------------------------------------------------------
(* Characters.  Printable lists U+0020 .. U+007E in code point order; the  *)
(* grave accent, which a TLA+ string cannot hold, is written "U+0060".     *)

Printable ==
    <<" ", "!", "\"", "#", "$", "%", "&", "'", "(", ")", "*", "+", ",", "-", ".", "/",
      "0", "1", "2", "3", "4", "5", "6", "7", "8", "9", ":", ";", "<", "=", ">", "?",
      "@", "A", "B", "C", "D", "E", "F", "G", "H", "I", "J", "K", "L", "M", "N", "O",
      "P", "Q", "R", "S", "T", "U", "V", "W", "X", "Y", "Z", "[", "\\", "]", "^", "_",
      "U+0060", "a", "b", "c", "d", "e", "f", "g", "h", "i", "j", "k", "l", "m", "n", "o",
      "p", "q", "r", "s", "t", "u", "v", "w", "x", "y", "z", "{", "|", "}", "~">>

\* the character with code point c, for 0x20 <= c <= 0x7e
Chr(c) == Printable[c - 31]

\* the code point of an ASCII character of the generated text
Ord(ch) ==
    IF ch = "\n" THEN 10
    ELSE IF ch = "\r" THEN 13
    ELSE IF ch = "\t" THEN 9
    ELSE 31 + (CHOOSE i \in 1..Len(Printable) : Printable[i] = ch)

\* str::as_bytes on ASCII text
as_bytes(s) == [i \in 1..Len(s) |-> Ord(s[i])]

HexDigits == <<"0", "1", "2", "3", "4", "5", "6", "7", "8", "9", "a", "b", "c", "d", "e", "f">>

\* LowerHex: lowercase hexadecimal digits of n, no leading zeros, "0" for 0
RECURSIVE LowerHex(_)
LowerHex(n) ==
    IF n < 16 THEN <<HexDigits[n + 1]>>
    ELSE LowerHex(n \div 16) \o <<HexDigits[(n % 16) + 1]>>

\* Display for usize: decimal digits of n
RECURSIVE Display(_)
Display(n) ==
    IF n < 10 THEN <<HexDigits[n + 1]>>
    ELSE Display(n \div 10) \o <<HexDigits[(n % 10) + 1]>>

\* concatenation of a sequence of texts
RECURSIVE Concat(_)
Concat(ss) == IF ss = <<>> THEN <<>> ELSE Head(ss) \o Concat(Tail(ss))

----------------------------------------------------------------------------
(* main.rs 10-13 *)

LINE_ENDING == IF windows THEN <<"\r","\n">> ELSE <<"\n">>

----------------------------------------------------------------------------
(* main.rs 155-166: format_as_binary *)

\* the byte formatted without the alternate flag: format!("{:x},", b)
FormatByte_NoPrefix(b) == LowerHex(b) \o <<",">>

\* format!("{:#x},", b)
FormatByte(b) == <<"0","x">> \o LowerHex(b) \o <<",">>

\* format_as_binary without the removal of the trailing ','
format_as_binary_KeepComma(data) ==
    Concat([i \in 1..Len(data) |-> FormatByte(data[i])])

format_as_binary(data) ==
    LET collected == Concat([i \in 1..Len(data) |-> FormatByte(data[i])])
    IN  IF collected # <<>>
        THEN SubSeq(collected, 1, Len(collected) - 1)   \* pop the trailing ','
        ELSE collected

----------------------------------------------------------------------------
(* main.rs 168-175: format_as_text *)

IsCont(b) == b >= 128 /\ b <= 191

\* UTF8_CHAR_WIDTH: length of the sequence a lead byte starts, 0 if none
Utf8Width(b) ==
    IF b <= 127 THEN 1
    ELSE IF b >= 194 /\ b <= 223 THEN 2
    ELSE IF b >= 224 /\ b <= 239 THEN 3
    ELSE IF b >= 240 /\ b <= 244 THEN 4
    ELSE 0

\* whether the n bytes of s are one well-formed UTF-8 sequence
Utf8SeqValid(s) ==
    LET n == Len(s)
    IN  CASE n = 1 -> TRUE
          [] n = 2 -> IsCont(s[2])
          [] n = 3 -> /\ \/ s[1] = 224 /\ s[2] >= 160 /\ s[2] <= 191
                         \/ s[1] >= 225 /\ s[1] <= 236 /\ IsCont(s[2])
                         \/ s[1] = 237 /\ s[2] >= 128 /\ s[2] <= 159
                         \/ s[1] >= 238 /\ s[1] <= 239 /\ IsCont(s[2])
                      /\ IsCont(s[3])
          [] n = 4 -> /\ \/ s[1] = 240 /\ s[2] >= 144 /\ s[2] <= 191
                         \/ s[1] >= 241 /\ s[1] <= 243 /\ IsCont(s[2])
                         \/ s[1] = 244 /\ s[2] >= 128 /\ s[2] <= 143
                      /\ IsCont(s[3])
                      /\ IsCont(s[4])

\* the code point a well-formed UTF-8 sequence encodes
Utf8CodePoint(s) ==
    LET n == Len(s)
    IN  CASE n = 1 -> s[1]
          [] n = 2 -> (s[1] % 32) * 64 + (s[2] % 64)
          [] n = 3 -> (s[1] % 16) * 4096 + (s[2] % 64) * 64 + (s[3] % 64)
          [] n = 4 -> (s[1] % 8) * 262144 + (s[2] % 64) * 4096
                        + (s[3] % 64) * 64 + (s[4] % 64)

\* String::from_utf8: Ok(chars) or Err
RECURSIVE from_utf8(_)
from_utf8(data) ==
    IF data = <<>> THEN [ok |-> TRUE, chars |-> <<>>]
    ELSE LET n == Utf8Width(data[1])
         IN  IF n = 0 \/ Len(data) < n \/ ~Utf8SeqValid(SubSeq(data, 1, n))
             THEN [ok |-> FALSE, chars |-> <<>>]
             ELSE LET rest == from_utf8(SubSeq(data, n + 1, Len(data)))
                  IN  IF rest.ok
                      THEN [ok |-> TRUE,
                            chars |-> <<Utf8CodePoint(SubSeq(data, 1, n))>> \o rest.chars]
                      ELSE rest

\* an escape table without the quotes
char_escape_default_NoQuotes(c) ==
    CASE c = 9  -> <<"\\","t">>
      [] c = 13 -> <<"\\","r">>
      [] c = 10 -> <<"\\","n">>
      [] c = 92 -> <<"\\","\\">>
      [] c >= 32 /\ c <= 126 /\ c # 92 -> <<Chr(c)>>
      [] OTHER -> <<"\\","u","{">> \o LowerHex(c) \o <<"}">>

\* char::escape_default
char_escape_default(c) ==
    CASE c = 9  -> <<"\\","t">>
      [] c = 13 -> <<"\\","r">>
      [] c = 10 -> <<"\\","n">>
      [] c = 39 -> <<"\\","'">>
      [] c = 34 -> <<"\\","\"">>
      [] c = 92 -> <<"\\","\\">>
      [] c >= 32 /\ c <= 126 /\ c \notin {39, 34, 92} -> <<Chr(c)>>
      [] OTHER -> <<"\\","u","{">> \o LowerHex(c) \o <<"}">>

\* str::escape_default: the escapes of the characters, in order
escape_default(chars) ==
    Concat([i \in 1..Len(chars) |-> char_escape_default(chars[i])])

\* the result when from_utf8 is Ok; unwrap() panics otherwise
format_as_text(data) == escape_default(from_utf8(data).chars)

format_as_text_panics(data) == ~from_utf8(data).ok

----------------------------------------------------------------------------
(* main.rs 177-215: generate_src_for_array *)

\* generate_src_for_array sized by the length of the formatted text
generate_src_for_array_TextLen(array_contents, array_len, symbol, ns_name) ==
    LET includes == <<"#","i","n","c","l","u","d","e"," ","<","a","r","r","a","y",">">> \o LINE_ENDING
                      \o <<"#","i","n","c","l","u","d","e"," ","<","c","s","t","d","i","n","t",">">> \o LINE_ENDING
        open == IF IsSome(ns_name)
                THEN <<"n","a","m","e","s","p","a","c","e"," ">> \o Unwrap(ns_name) \o <<"{">>
                ELSE <<>>
        decl == <<"c","o","n","s","t","e","x","p","r"," ","s","t","d",":",":","a","r","r","a","y","<","s","t","d",":",":","u","i","n","t","8","_","t",",">> \o Display(Len(array_contents)) \o <<">"," ">>
                  \o symbol \o <<"{">> \o array_contents \o <<"}",";">>
        close == IF IsSome(ns_name) THEN <<"}">> ELSE <<>>
    IN  includes \o open \o decl \o close \o LINE_ENDING

\* generate_src_for_array with a blank line after the includes
generate_src_for_array_BlankLine(array_contents, array_len, symbol, ns_name) ==
    LET includes == <<"#","i","n","c","l","u","d","e"," ","<","a","r","r","a","y",">">> \o LINE_ENDING
                      \o <<"#","i","n","c","l","u","d","e"," ","<","c","s","t","d","i","n","t",">">> \o LINE_ENDING \o LINE_ENDING
        open == IF IsSome(ns_name)
                THEN <<"n","a","m","e","s","p","a","c","e"," ">> \o Unwrap(ns_name) \o <<"{">>
                ELSE <<>>
        decl == <<"c","o","n","s","t","e","x","p","r"," ","s","t","d",":",":","a","r","r","a","y","<","s","t","d",":",":","u","i","n","t","8","_","t",",">> \o Display(array_len) \o <<">"," ">>
                  \o symbol \o <<"{">> \o array_contents \o <<"}",";">>
        close == IF IsSome(ns_name) THEN <<"}">> ELSE <<>>
    IN  includes \o open \o decl \o close \o LINE_ENDING

generate_src_for_array(array_contents, array_len, symbol, ns_name) ==
    LET includes == <<"#","i","n","c","l","u","d","e"," ","<","a","r","r","a","y",">">> \o LINE_ENDING
                      \o <<"#","i","n","c","l","u","d","e"," ","<","c","s","t","d","i","n","t",">">> \o LINE_ENDING
        open == IF IsSome(ns_name)
                THEN <<"n","a","m","e","s","p","a","c","e"," ">> \o Unwrap(ns_name) \o <<"{">>
                ELSE <<>>
        decl == <<"c","o","n","s","t","e","x","p","r"," ","s","t","d",":",":","a","r","r","a","y","<","s","t","d",":",":","u","i","n","t","8","_","t",",">> \o Display(array_len) \o <<">"," ">>
                  \o symbol \o <<"{">> \o array_contents \o <<"}",";">>
        close == IF IsSome(ns_name) THEN <<"}">> ELSE <<>>
    IN  includes \o open \o decl \o close \o LINE_ENDING

(* main.rs 217-250: generate_src_for_string *)

\* generate_src_for_string that leaves the namespace open
generate_src_for_string_NoClose(string_contents, symbol, ns_name) ==
    LET open == IF IsSome(ns_name)
                THEN <<"n","a","m","e","s","p","a","c","e"," ">> \o Unwrap(ns_name) \o <<"{">>
                ELSE <<>>
        decl == <<"c","o","n","s","t","e","x","p","r"," ","c","o","n","s","t"," ","c","h","a","r","*"," ">> \o symbol \o <<" ","="," ","\"">>
                  \o string_contents \o <<"\"",";">>
    IN  open \o decl \o LINE_ENDING

generate_src_for_string(string_contents, symbol, ns_name) ==
    LET open == IF IsSome(ns_name)
                THEN <<"n","a","m","e","s","p","a","c","e"," ">> \o Unwrap(ns_name) \o <<"{">>
                ELSE <<>>
        decl == <<"c","o","n","s","t","e","x","p","r"," ","c","o","n","s","t"," ","c","h","a","r","*"," ">> \o symbol \o <<" ","="," ","\"">>
                  \o string_contents \o <<"\"",";">>
        close == IF IsSome(ns_name) THEN <<"}">> ELSE <<>>
    IN  open \o decl \o close \o LINE_ENDING

----------------------------------------------------------------------------
(* Paths and the file system.  A path is a directory and a final           *)
(* component; a relative path lies in the current directory "cwd".         *)

Path(dir, name) == [dir |-> dir, name |-> name]

\* Path::file_name: None when the path terminates in ".."
file_name(p) == IF p.name = <<".",".">> THEN None ELSE Some(p.name)

\* index of the last '.' of name, 0 if there is none
LastDot(name) ==
    LET dots == {i \in 1..Len(name) : name[i] = "."}
    IN  IF dots = {} THEN 0 ELSE CHOOSE i \in dots : \A j \in dots : j <= i

\* Path::file_stem of a final component
file_stem(name) ==
    IF name = <<".",".">> \/ LastDot(name) <= 1
    THEN name
    ELSE SubSeq(name, 1, LastDot(name) - 1)

\* Path::with_extension
with_extension(p, ext) ==
    IF file_name(p) = None THEN p
    ELSE [p EXCEPT !.name = file_stem(p.name) \o <<".">> \o ext]

\* PathBuf::join of the current directory and a file name
cwd_join(name) == Path("cwd", name)

\* char::is_ascii_alphanumeric
is_ascii_alphanumeric(ch) ==
    LET c == Ord(ch)
    IN  \/ c >= 48 /\ c <= 57
        \/ c >= 65 /\ c <= 90
        \/ c >= 97 /\ c <= 122

\* main.rs 82-87: the symbol name derived from the input file name
DeriveSymbol(name) ==
    [i \in 1..Len(name) |-> IF is_ascii_alphanumeric(name[i]) THEN name[i] ELSE "_"]

InputPaths ==
    {Path("cwd", <<"a",".","t","x","t">>), Path("cwd", <<"x",".","h","p","p">>), Path("other", <<"a","-","1">>), Path("other", <<".",".">>)}

ExplicitOutput == Path("other", <<"o","u","t",".","h","p","p">>)

OutputCandidates ==
    {Path("cwd", <<"a",".","h","p","p">>), Path("cwd", <<"a","-","1",".","h","p","p">>), ExplicitOutput}

Paths == InputPaths \cup OutputCandidates

File(content) == [kind |-> "file", content |-> content]
Dir == [kind |-> "dir", content |-> <<>>]

\* contents of a file that exists before the run
OldContent == <<79, 76, 68>>

exists(p) == IsSome(fs[p])
is_file(p) == IsSome(fs[p]) /\ Unwrap(fs[p]).kind = "file"

----------------------------------------------------------------------------
(* Inputs *)

\* tab, the two quotes, a letter and the two bytes of U+00E9
SmallBytes == {9, 34, 39, 65, 195, 169}

RECURSIVE SeqsOfLen(_, _)
SeqsOfLen(S, n) ==
    IF n = 0 THEN {<<>>}
    ELSE {Append(s, b) : s \in SeqsOfLen(S, n - 1), b \in S}

SeqsUpTo(S, n) == UNION {SeqsOfLen(S, k) : k \in 0..n}

ExampleInputs ==
    { <<97, 34, 98, 10, 99>>,       \* a"b<newline>c
      <<65, 66>>,                   \* AB
      <<0, 255>>,
      <<255, 0>>,
      <<92, 110>>,                  \* a backslash and the letter n
      <<92, 34>>,                   \* a backslash and a double quote
      <<226, 130, 172>>,            \* U+20AC
      <<240, 159, 152, 128>>,       \* U+1F600
      <<226, 130>>,                 \* truncated sequence
      <<237, 160, 128>>,            \* surrogate
      <<192, 128>> }                \* overlong

Inputs ==
    SeqsUpTo(SmallBytes, MaxLen) \cup {<<b>> : b \in 0..255} \cup ExampleInputs

\* BufWriter's default capacity (DEFAULT_BUF_SIZE), used by BufWriter::new
BufCapacity == 8192

\* symbol names that put the text-mode declaration of a one-byte input
\* just below and at the capacity of the BufWriter
LongSymbols ==
    {[i \in 1..n |-> "a"] : n \in {BufCapacity - 31, BufCapacity - 30}}

CliArgs(ip, op, sym, ns, bin) ==
    [input_path |-> ip, output_path |-> op, symbol_name |-> sym,
     namespace |-> ns, binary |-> bin]

\* the file system before the run: the input path as st says, and the
\* output candidates of pre holding old files
InitialFs(ip, st, pre) ==
    [p \in Paths |->
        IF p = ip
        THEN (IF st = "file" THEN Some(File(<<>>))
              ELSE IF st = "dir" THEN Some(Dir) ELSE None)
        ELSE IF p \in pre THEN Some(File(OldContent)) ELSE None]

WithContent(f, p, content) ==
    [f EXCEPT ![p] = IF IsSome(f[p]) /\ Unwrap(f[p]).kind = "file"
                     THEN Some(File(content)) ELSE f[p]]

\* every input, every mode, namespace and symbol option, in a good environment
InitPipeline ==
    \E data \in Inputs, bin \in {Some(TRUE), Some(FALSE)},
       ns \in {None, Some(<<"n","s">>)}, sym \in {None, Some(<<"s","y","m">>)}, w \in BOOLEAN :
        /\ windows = w
        /\ cli_args = CliArgs(Path("cwd", <<"a",".","t","x","t">>), None, sym, ns, bin)
        /\ cwd_ok = TRUE
        /\ fs = WithContent(InitialFs(Path("cwd", <<"a",".","t","x","t">>), "file", {}),
                            Path("cwd", <<"a",".","t","x","t">>), data)

\* a few inputs in every environment
InitEnvironment ==
    \E data \in {<<65, 66>>, <<255>>}, bin \in {None, Some(FALSE), Some(TRUE)},
       ip \in InputPaths, st \in {"file", "dir", "missing"},
       op \in {None, Some(ExplicitOutput)}, pre \in {{}, OutputCandidates},
       c \in BOOLEAN :
        /\ (ip.name = <<".",".">> => st # "file")
        /\ windows = FALSE
        /\ cli_args = CliArgs(ip, op, None, None, bin)
        /\ cwd_ok = c
        /\ fs = WithContent(InitialFs(ip, st, pre), ip, data)

\* declarations around the capacity of the BufWriter
InitLarge ==
    \E sym \in LongSymbols, w \in BOOLEAN :
        /\ windows = w
        /\ cli_args = CliArgs(Path("cwd", <<"a",".","t","x","t">>), None, Some(sym), None, Some(FALSE))
        /\ cwd_ok = TRUE
        /\ fs = WithContent(InitialFs(Path("cwd", <<"a",".","t","x","t">>), "file", {}),
                            Path("cwd", <<"a",".","t","x","t">>), <<65>>)

Init ==
    /\ (InitPipeline \/ InitEnvironment \/ InitLarge)
    /\ fs0 = fs
    /\ pc = "check_input"
    /\ input_filename = None
    /\ output_path = None
    /\ symbol_name = <<>>
    /\ buf = <<>>
    /\ formatted = <<>>
    /\ out_src = <<>>
    /\ writer = <<>>
    /\ stderr = <<>>
    /\ exit = "running"

----------------------------------------------------------------------------
(* main *)

\* eprintln!(msg); return ExitCode::FAILURE
Fail(msg) ==
    /\ stderr' = Append(stderr, msg)
    /\ exit' = "FAILURE"
    /\ pc' = "done"

\* main.rs 38-52
CheckInput ==
    /\ pc = "check_input"
    /\ IF ~exists(cli_args.input_path) THEN Fail("file path does not exist")
       ELSE IF ~is_file(cli_args.input_path) THEN Fail("file path is not a file")
       ELSE pc' = "current_dir" /\ UNCHANGED <<stderr, exit>>
    /\ UNCHANGED <<windows, cli_args, cwd_ok, fs, fs0, input_filename, output_path,
                   symbol_name, buf, formatted, out_src, writer>>

\* main.rs 56-62
CurrentDir ==
    /\ pc = "current_dir"
    /\ IF ~cwd_ok
       THEN Fail("environment's current working directory is unavailable")
       ELSE pc' = "names" /\ UNCHANGED <<stderr, exit>>
    /\ UNCHANGED <<windows, cli_args, cwd_ok, fs, fs0, input_filename, output_path,
                   symbol_name, buf, formatted, out_src, writer>>

\* main.rs 64-88
ResolveNames ==
    /\ pc = "names"
    /\ IF file_name(cli_args.input_path) = None
       THEN /\ Fail("input file path does not contain a valid filename")
            /\ UNCHANGED <<input_filename, output_path, symbol_name>>
       ELSE LET name == Unwrap(file_name(cli_args.input_path))
            IN  /\ input_filename' = Some(name)
                /\ output_path' =
                      IF IsSome(cli_args.output_path)
                      THEN cli_args.output_path
                      ELSE Some(with_extension(cwd_join(name), <<"h","p","p">>))
                /\ symbol_name' =
                      IF IsSome(cli_args.symbol_name)
                      THEN Unwrap(cli_args.symbol_name)
                      ELSE DeriveSymbol(name)
                /\ pc' = "open_input"
                /\ UNCHANGED <<stderr, exit>>
    /\ UNCHANGED <<windows, cli_args, cwd_ok, fs, fs0, buf, formatted, out_src, writer>>

\* main.rs 90-96: the open succeeds, or fails with an I/O error
OpenInput ==
    /\ pc = "open_input"
    /\ \E ok \in BOOLEAN :
          IF ok THEN pc' = "read" /\ UNCHANGED <<stderr, exit>>
          ELSE Fail("failed to open input file for reading")
    /\ UNCHANGED <<windows, cli_args, cwd_ok, fs, fs0, input_filename, output_path,
                   symbol_name, buf, formatted, out_src, writer>>

\* main.rs 142-153: the whole file, or an I/O error
read_file(f) == Unwrap(fs[f]).content

\* ReadInput in a main that creates the output file before it reads the input
ReadInput_OutputFirst ==
    /\ pc = "read"
    /\ \E ok \in BOOLEAN :
          IF ok
          THEN /\ buf' = read_file(cli_args.input_path)
               /\ pc' = "format"
               /\ UNCHANGED <<stderr, exit>>
          ELSE /\ Fail("failed read input file")
               /\ UNCHANGED buf
    /\ fs' = IF exists(Unwrap(output_path)) THEN fs
             ELSE [fs EXCEPT ![Unwrap(output_path)] = Some(File(<<>>))]
    /\ UNCHANGED <<windows, cli_args, cwd_ok, fs0, input_filename, output_path,
                   symbol_name, formatted, out_src, writer>>

\* main.rs 98-104
ReadInput ==
    /\ pc = "read"
    /\ \E ok \in BOOLEAN :
          IF ok
          THEN /\ buf' = read_file(cli_args.input_path)
               /\ pc' = "format"
               /\ UNCHANGED <<stderr, exit>>
          ELSE /\ Fail("failed read input file")
               /\ UNCHANGED buf
    /\ UNCHANGED <<windows, cli_args, cwd_ok, fs, fs0, input_filename, output_path,
                   symbol_name, formatted, out_src, writer>>

\* main.rs 106-109: unwrap() in format_as_text panics on invalid UTF-8
Format ==
    /\ pc = "format"
    /\ IF cli_args.binary = Some(TRUE)
       THEN /\ formatted' = format_as_binary(buf)
            /\ pc' = "generate"
            /\ UNCHANGED <<stderr, exit>>
       ELSE IF format_as_text_panics(buf)
       THEN /\ stderr' = Append(stderr, "panicked: called Result::unwrap() on an Err value")
            /\ exit' = "PANIC"
            /\ pc' = "done"
            /\ UNCHANGED formatted
       ELSE /\ formatted' = format_as_text(buf)
            /\ pc' = "generate"
            /\ UNCHANGED <<stderr, exit>>
    /\ UNCHANGED <<windows, cli_args, cwd_ok, fs, fs0, input_filename, output_path,
                   symbol_name, buf, out_src, writer>>

\* main.rs 111-116
Generate ==
    /\ pc = "generate"
    /\ out_src' =
          IF cli_args.binary = Some(TRUE)
          THEN generate_src_for_array(formatted, Len(buf), symbol_name, cli_args.namespace)
          ELSE generate_src_for_string(formatted, symbol_name, cli_args.namespace)
    /\ pc' = "open_output"
    /\ UNCHANGED <<windows, cli_args, cwd_ok, fs, fs0, input_filename, output_path,
                   symbol_name, buf, formatted, writer, stderr, exit>>

\* OpenOutput with create(true).truncate(true) in place of create_new(true)
OpenOutput_Truncate ==
    /\ pc = "open_output"
    /\ \E ok \in BOOLEAN :
          IF ok /\ (~exists(Unwrap(output_path)) \/ is_file(Unwrap(output_path)))
          THEN /\ fs' = [fs EXCEPT ![Unwrap(output_path)] = Some(File(<<>>))]
               /\ pc' = "write"
               /\ UNCHANGED <<stderr, exit>>
          ELSE /\ Fail("failed to open output file for writing")
               /\ UNCHANGED fs
    /\ UNCHANGED <<windows, cli_args, cwd_ok, fs0, input_filename, output_path,
                   symbol_name, buf, formatted, out_src, writer>>

\* main.rs 118-128: OpenOptions write(true).create_new(true): fails when the
\* path exists, or with another I/O error; otherwise creates an empty file
OpenOutput ==
    /\ pc = "open_output"
    /\ \E ok \in BOOLEAN :
          IF ok /\ ~exists(Unwrap(output_path))
          THEN /\ fs' = [fs EXCEPT ![Unwrap(output_path)] = Some(File(<<>>))]
               /\ pc' = "write"
               /\ UNCHANGED <<stderr, exit>>
          ELSE /\ Fail("failed to open output file for writing")
               /\ UNCHANGED fs
    /\ UNCHANGED <<windows, cli_args, cwd_ok, fs0, input_filename, output_path,
                   symbol_name, buf, formatted, out_src, writer>>

\* the numbers of bytes that may have reached the file when a write of
\* bytes ends: all of them, or some of them before an I/O error
WritePoints(bytes) == {0, Len(bytes) \div 2, Len(bytes)}

\* the file at p with bytes appended
AppendTo(f, p, bytes) ==
    [f EXCEPT ![p] = Some(File(Unwrap(f[p]).content \o bytes))]

\* main.rs 130-137: BufWriter::new and write_all.  Fewer bytes than the
\* spare capacity are only copied to the buffer; otherwise the (empty)
\* buffer is flushed and the bytes go to the file with File::write_all.
WriteAll ==
    /\ pc = "write"
    /\ LET bytes == as_bytes(out_src)
       IN  IF Len(bytes) < BufCapacity
           THEN /\ writer' = bytes
                /\ pc' = "return"
                /\ UNCHANGED <<fs, stderr, exit>>
           ELSE \E n \in WritePoints(bytes) :
                   /\ fs' = AppendTo(fs, Unwrap(output_path), SubSeq(bytes, 1, n))
                   /\ IF n = Len(bytes)
                      THEN pc' = "return" /\ UNCHANGED <<stderr, exit>>
                      ELSE Fail("failed to write to output file")
                   /\ UNCHANGED writer
    /\ UNCHANGED <<windows, cli_args, cwd_ok, fs0, input_filename, output_path,
                   symbol_name, buf, formatted, out_src>>

\* main.rs 139: return ExitCode::SUCCESS drops the BufWriter, whose Drop
\* flushes the buffer and discards the result of the flush
Return ==
    /\ pc = "return"
    /\ \E n \in WritePoints(writer) :
          /\ fs' = AppendTo(fs, Unwrap(output_path), SubSeq(writer, 1, n))
          /\ writer' = SubSeq(writer, n + 1, Len(writer))
    /\ exit' = "SUCCESS"
    /\ pc' = "done"
    /\ UNCHANGED <<windows, cli_args, cwd_ok, fs0, input_filename, output_path,
                   symbol_name, buf, formatted, out_src, stderr>>

Next ==
    \/ CheckInput
    \/ CurrentDir
    \/ ResolveNames
    \/ OpenInput
    \/ ReadInput
    \/ Format
    \/ Generate
    \/ OpenOutput
    \/ WriteAll
    \/ Return

Spec == Init /\ [][Next]_vars

----------------------------------------------------------------------------
(* Reading the generated text back *)

BinaryMode == cli_args.binary = Some(TRUE)

\* the formatter has returned
HasFormatted == pc \in {"generate", "open_output", "write", "return"} \/ out_src # <<>>

\* the generator has returned
HasOutSrc == out_src # <<>>

\* smallest element of a non-empty set of integers
Min(S) == CHOOSE i \in S : \A j \in S : i <= j
Max(S) == CHOOSE i \in S : \A j \in S : j <= i

\* positions of the character ch in text
Positions(text, ch) == {i \in 1..Len(text) : text[i] = ch}

\* the pieces of text between the occurrences of the separator sep
RECURSIVE SplitOn(_, _)
SplitOn(text, sep) ==
    IF Positions(text, sep) = {} THEN <<text>>
    ELSE LET i == Min(Positions(text, sep))
         IN  <<SubSeq(text, 1, i - 1)>> \o SplitOn(SubSeq(text, i + 1, Len(text)), sep)

StartsWith(text, prefix) ==
    Len(text) >= Len(prefix) /\ SubSeq(text, 1, Len(prefix)) = prefix

EndsWith(text, suffix) ==
    /\ Len(text) >= Len(suffix)
    /\ SubSeq(text, Len(text) - Len(suffix) + 1, Len(text)) = suffix

LowerHexChars == {"0", "1", "2", "3", "4", "5", "6", "7", "8", "9", "a", "b", "c", "d", "e", "f"}
UpperHexChars == {"A", "B", "C", "D", "E", "F"}
DecimalChars == {"0", "1", "2", "3", "4", "5", "6", "7", "8", "9"}

\* value of one hexadecimal digit, either case
HexDigitValue(ch) ==
    CASE ch = "0" -> 0 [] ch = "1" -> 1 [] ch = "2" -> 2 [] ch = "3" -> 3
      [] ch = "4" -> 4 [] ch = "5" -> 5 [] ch = "6" -> 6 [] ch = "7" -> 7
      [] ch = "8" -> 8 [] ch = "9" -> 9
      [] ch \in {"a", "A"} -> 10 [] ch \in {"b", "B"} -> 11
      [] ch \in {"c", "C"} -> 12 [] ch \in {"d", "D"} -> 13
      [] ch \in {"e", "E"} -> 14 [] ch \in {"f", "F"} -> 15

\* value of a digit string in the given radix
RECURSIVE DigitsValue(_, _)
DigitsValue(digits, radix) ==
    IF digits = <<>> THEN 0
    ELSE DigitsValue(SubSeq(digits, 1, Len(digits) - 1), radix) * radix
           + HexDigitValue(digits[Len(digits)])

AllIn(text, S) == \A i \in 1..Len(text) : text[i] \in S

\* the value of a C++ integer literal (hexadecimal or decimal), -1 if the
\* token is not one
EvalLiteral(tok) ==
    IF Len(tok) >= 3 /\ tok[1] = "0" /\ tok[2] \in {"x", "X"}
       /\ AllIn(SubSeq(tok, 3, Len(tok)), LowerHexChars \cup UpperHexChars)
    THEN DigitsValue(SubSeq(tok, 3, Len(tok)), 16)
    ELSE IF Len(tok) >= 1 /\ AllIn(tok, DecimalChars) /\ (tok[1] # "0" \/ Len(tok) = 1)
    THEN DigitsValue(tok, 10)
    ELSE -1

\* position of the ',' that ends `std::array<std::uint8_t,` in a binary-mode text
SizeStart(text) ==
    Min({i \in 1..Len(text) :
            /\ i >= Len(<<"s","t","d",":",":","u","i","n","t","8","_","t",",">>)
            /\ SubSeq(text, i - Len(<<"s","t","d",":",":","u","i","n","t","8","_","t",",">>) + 1, i) = <<"s","t","d",":",":","u","i","n","t","8","_","t",",">>})

\* position of the '>' that closes the array type
SizeEnd(text) == Min({i \in Positions(text, ">") : i > SizeStart(text)})

\* the size written in the array declaration, as text
DeclaredSizeText(text) == SubSeq(text, SizeStart(text) + 1, SizeEnd(text) - 1)

\* the text between the braces of the array initialiser
InitialiserList(text) ==
    LET open == Min({i \in Positions(text, "{") : i > SizeEnd(text)})
        close == Min({i \in Positions(text, "}") : i > open})
    IN  SubSeq(text, open + 1, close - 1)

\* the elements of an initialiser list
Elements(list) == IF list = <<>> THEN <<>> ELSE SplitOn(list, ",")

----------------------------------------------------------------------------
(* Properties of the formatters and generators *)

\* tok is `0x` followed by the lowercase hexadecimal digits of b, without
\* leading zeros
IsByteLiteral(tok, b) ==
    /\ Len(tok) >= 3
    /\ tok[1] = "0" /\ tok[2] = "x"
    /\ AllIn(SubSeq(tok, 3, Len(tok)), LowerHexChars)
    /\ (tok[3] # "0" \/ Len(tok) = 3)
    /\ DigitsValue(SubSeq(tok, 3, Len(tok)), 16) = b

\* C1: format_as_binary renders the bytes in input order, each as `0x` and
\* its lowercase hexadecimal digits without leading zeros, joined by single
\* commas with none leading or trailing; the empty input gives the empty
\* string and [0x00, 0xFF] gives `0x0,0xff`.
C1_FormatAsBinary ==
    (BinaryMode /\ HasFormatted) =>
        /\ (buf = <<>> => formatted = <<>>)
        /\ (buf # <<>> =>
              LET toks == SplitOn(formatted, ",")
              IN  /\ Len(toks) = Len(buf)
                  /\ \A i \in 1..Len(buf) : IsByteLiteral(toks[i], buf[i]))
        /\ (buf = <<0, 255>> => formatted = <<"0","x","0",",","0","x","f","f">>)

C1_Witness == BinaryMode /\ HasFormatted /\ buf = <<0, 255>> /\ formatted = <<"0","x","0",",","0","x","f","f">>

\* C2: in binary mode the size written in the array declaration, the number
\* of elements of the initialiser list and the input length are equal; the
\* empty input gives size 0 and an empty list.
C2_DeclaredSizeIsElementCount ==
    (BinaryMode /\ HasOutSrc) =>
        /\ EvalLiteral(DeclaredSizeText(out_src)) = Len(buf)
        /\ Len(Elements(InitialiserList(out_src))) = Len(buf)
        /\ (buf = <<>> => /\ DeclaredSizeText(out_src) = <<"0">>
                          /\ InitialiserList(out_src) = <<>>)

C2_Witness ==
    /\ BinaryMode /\ HasOutSrc /\ Len(buf) = 2
    /\ DeclaredSizeText(out_src) = <<"2">>
    /\ Len(Elements(InitialiserList(out_src))) = 2

\* C3: evaluating the literals of the initialiser list of the generated array
\* declaration, split on commas, gives back the input bytes in order.
C3_BinaryRoundTrip ==
    (BinaryMode /\ HasOutSrc) =>
        LET elems == Elements(InitialiserList(out_src))
        IN  [i \in 1..Len(elems) |-> EvalLiteral(elems[i])] = buf

C3_Witness ==
    /\ BinaryMode /\ HasOutSrc /\ buf = <<255, 0>>
    /\ Elements(InitialiserList(out_src)) = <<<<"0","x","f","f">>, <<"0","x","0">>>>

----------------------------------------------------------------------------
(* The string literal of the text-mode declaration, read as C++ reads it *)

\* the text between the opening and the closing double quote of the literal
StringLiteralBody(text) ==
    SubSeq(text, Min(Positions(text, "\"")) + 1, Max(Positions(text, "\"")) - 1)

\* UTF-8 encoding of a code point
Utf8Encode(c) ==
    IF c < 128 THEN <<c>>
    ELSE IF c < 2048 THEN <<192 + (c \div 64), 128 + (c % 64)>>
    ELSE IF c < 65536
    THEN <<224 + (c \div 4096), 128 + ((c \div 64) % 64), 128 + (c % 64)>>
    ELSE <<240 + (c \div 262144), 128 + ((c \div 4096) % 64),
           128 + ((c \div 64) % 64), 128 + (c % 64)>>

\* simple-escape-sequence: \' \" \? \\ \a \b \f \n \r \t \v
SimpleEscapeChars == {"'", "\"", "?", "\\", "a", "b", "f", "n", "r", "t", "v"}

SimpleEscapeValue(ch) ==
    CASE ch = "'" -> 39 [] ch = "\"" -> 34 [] ch = "?" -> 63 [] ch = "\\" -> 92
      [] ch = "a" -> 7 [] ch = "b" -> 8 [] ch = "f" -> 12 [] ch = "n" -> 10
      [] ch = "r" -> 13 [] ch = "t" -> 9 [] ch = "v" -> 11

OctalChars == {"0", "1", "2", "3", "4", "5", "6", "7"}
HexChars == LowerHexChars \cup UpperHexChars

\* number of leading characters of s that are in S, at most max
LeadingIn(s, S, max) ==
    Max({n \in 0..(IF Len(s) < max THEN Len(s) ELSE max) : AllIn(SubSeq(s, 1, n), S)})

BadLiteral == [ok |-> FALSE, bytes |-> <<>>]

\* the bytes a C++ string literal with this body denotes (UTF-8 literal
\* encoding), by the grammar of s-char-sequence: any character but the
\* double quote, the backslash and the new-line, a simple escape, an octal
\* escape of one to three digits, \x and hexadecimal digits, \u and four
\* hexadecimal digits, \U and eight; not ok when the body is not in the grammar
RECURSIVE CppUnescape(_)
CppUnescape(s) ==
    LET then(bytes, k) ==
            LET rest == CppUnescape(SubSeq(s, k + 1, Len(s)))
            IN  IF rest.ok THEN [ok |-> TRUE, bytes |-> bytes \o rest.bytes] ELSE BadLiteral
        after == SubSeq(s, 3, Len(s))
    IN  IF s = <<>> THEN [ok |-> TRUE, bytes |-> <<>>]
        ELSE IF s[1] \in {"\"", "\n", "\r"} THEN BadLiteral
        ELSE IF s[1] # "\\" THEN then(Utf8Encode(Ord(s[1])), 1)
        ELSE IF Len(s) < 2 THEN BadLiteral
        ELSE IF s[2] \in SimpleEscapeChars THEN then(<<SimpleEscapeValue(s[2])>>, 2)
        ELSE IF s[2] = "u"
        THEN IF LeadingIn(after, HexChars, 4) = 4
             THEN then(Utf8Encode(DigitsValue(SubSeq(after, 1, 4), 16)), 6)
             ELSE BadLiteral
        ELSE IF s[2] = "U"
        THEN IF LeadingIn(after, HexChars, 8) = 8
             THEN then(Utf8Encode(DigitsValue(SubSeq(after, 1, 8), 16)), 10)
             ELSE BadLiteral
        ELSE IF s[2] = "x"
        THEN LET n == LeadingIn(after, HexChars, Len(after))
             IN  IF n >= 1 /\ DigitsValue(SubSeq(after, 1, n), 16) <= 255
                 THEN then(<<DigitsValue(SubSeq(after, 1, n), 16)>>, 2 + n)
                 ELSE BadLiteral
        ELSE IF s[2] \in OctalChars
        THEN LET n == LeadingIn(SubSeq(s, 2, Len(s)), OctalChars, 3)
             IN  IF DigitsValue(SubSeq(s, 2, 1 + n), 8) <= 255
                 THEN then(<<DigitsValue(SubSeq(s, 2, 1 + n), 8)>>, 1 + n)
                 ELSE BadLiteral
        ELSE BadLiteral

\* C4: the string literal of the text-mode declaration is in the C++
\* string-literal grammar, and unescaped by it reproduces the input bytes.
C4_TextRoundTrip ==
    (~BinaryMode /\ HasOutSrc) =>
        LET r == CppUnescape(StringLiteralBody(out_src))
        IN  r.ok /\ r.bytes = buf

----------------------------------------------------------------------------
(* The escapes of format_as_text, character by character *)

IsControl(c) == c < 32 \/ c = 127
IsPrintableAscii(c) == c >= 32 /\ c <= 126

\* tok starts as a numeric escape does: a backslash, then `u`, `U`, `x` or
\* an octal digit
IsNumericEscape(tok) ==
    /\ Len(tok) >= 2
    /\ tok[1] = "\\"
    /\ tok[2] \in {"u", "U", "x"} \cup OctalChars

\* tok is `\u{h}`, h the lowercase hexadecimal digits of c without leading zeros
IsBracedUnicodeEscape(tok, c) ==
    /\ Len(tok) >= 5
    /\ SubSeq(tok, 1, 3) = <<"\\","u","{">>
    /\ tok[Len(tok)] = "}"
    /\ LET h == SubSeq(tok, 4, Len(tok) - 1)
       IN  /\ AllIn(h, LowerHexChars)
           /\ (h[1] # "0" \/ Len(h) = 1)
           /\ DigitsValue(h, 16) = c

\* the escape table as first stated: newline, backslash and double quote by
\* name, control and non-ASCII characters numerically, the rest unchanged
EscapedAsStated(c, tok) ==
    CASE c = 10 -> tok = <<"\\","n">>
      [] c = 92 -> tok = <<"\\","\\">>
      [] c = 34 -> tok = <<"\\","\"">>
      [] c # 10 /\ (IsControl(c) \/ c > 127) -> IsNumericEscape(tok)
      [] OTHER -> tok = <<Chr(c)>>

\* the escape table of char::escape_default
EscapedAsAmended(c, tok) ==
    CASE c = 9 -> tok = <<"\\","t">>
      [] c = 13 -> tok = <<"\\","r">>
      [] c = 10 -> tok = <<"\\","n">>
      [] c = 39 -> tok = <<"\\","'">>
      [] c = 34 -> tok = <<"\\","\"">>
      [] c = 92 -> tok = <<"\\","\\">>
      [] c \notin {39, 34, 92} /\ IsPrintableAscii(c) -> tok = <<Chr(c)>>
      [] OTHER -> IsBracedUnicodeEscape(tok, c)

\* out is the concatenation of one token per character of chars, in order,
\* each token the escape of its character by the chosen table
RECURSIVE EscapesEach(_, _, _)
EscapesEach(chars, out, amended) ==
    IF chars = <<>> THEN out = <<>>
    ELSE \E k \in 1..Len(out) :
            /\ IF amended
               THEN EscapedAsAmended(chars[1], SubSeq(out, 1, k))
               ELSE EscapedAsStated(chars[1], SubSeq(out, 1, k))
            /\ EscapesEach(Tail(chars), SubSeq(out, k + 1, Len(out)), amended)

TextFormatted == ~BinaryMode /\ HasFormatted

\* C5 as first stated: control characters (tab and carriage return among
\* them) get numeric escapes and every printable ASCII character but the
\* backslash and the double quote (the single quote among them) is copied.
C5_EscapingAsStated ==
    TextFormatted => EscapesEach(from_utf8(buf).chars, formatted, FALSE)

\* C5, amended: each character of a valid UTF-8 input is escaped
\* independently and once: tab, carriage return and newline become \t, \r
\* and \n, the single quote, the double quote and the backslash are preceded
\* by a backslash, any other printable ASCII character is copied, and any
\* other character becomes \u{h}, h its code point in lowercase hexadecimal
\* digits without leading zeros; a"b<newline>c gives the 7 characters
\* a\"b\nc and the empty input the empty string.
C5_Escaping ==
    TextFormatted =>
        /\ EscapesEach(from_utf8(buf).chars, formatted, TRUE)
        /\ (buf = <<97, 34, 98, 10, 99>> => formatted = <<"a","\\","\"","b","\\","n","c">>)
        /\ (buf = <<>> => formatted = <<>>)

C5_Witness ==
    TextFormatted /\ buf = <<97, 34, 98, 10, 99>> /\ Len(formatted) = 7

----------------------------------------------------------------------------
(* The shape of the declaration text *)

Includes == <<"#","i","n","c","l","u","d","e"," ","<","a","r","r","a","y",">">> \o LINE_ENDING \o <<"#","i","n","c","l","u","d","e"," ","<","c","s","t","d","i","n","t",">">> \o LINE_ENDING

\* what precedes the namespace opening or the constant: the two include
\* lines in binary mode, nothing in text mode
Preamble == IF BinaryMode THEN Includes ELSE <<>>

\* number of line feeds in text
LineFeeds(text) == Cardinality(Positions(text, "\n"))

\* the lines of text
Lines(text) == SplitOn(text, "\n")

\* C6: with a namespace name ns the text has `namespace ns{` immediately
\* before the constant declaration (after the include lines in binary mode)
\* and exactly one `}` between the `;` that ends the constant and the
\* trailing line terminator; without one the constant follows the preamble
\* directly and the `;` is followed by the line terminator alone.
C6_NamespaceWrapping ==
    HasOutSrc =>
        IF IsSome(cli_args.namespace)
        THEN /\ StartsWith(out_src, Preamble \o <<"n","a","m","e","s","p","a","c","e"," ">> \o Unwrap(cli_args.namespace)
                                      \o <<"{","c","o","n","s","t","e","x","p","r"," ">>)
             /\ EndsWith(out_src, <<";","}">> \o LINE_ENDING)
             /\ IF BinaryMode
                THEN EndsWith(out_src, <<"{">> \o formatted \o <<"}",";","}">> \o LINE_ENDING)
                ELSE EndsWith(out_src, <<"\"">> \o formatted \o <<"\"",";","}">> \o LINE_ENDING)
        ELSE /\ StartsWith(out_src, Preamble \o <<"c","o","n","s","t","e","x","p","r"," ">>)
             /\ EndsWith(out_src, <<";">> \o LINE_ENDING)
             /\ ~EndsWith(out_src, <<"}">> \o LINE_ENDING)

C6_Witness ==
    /\ HasOutSrc /\ cli_args.namespace = Some(<<"n","s">>) /\ ~BinaryMode /\ ~windows
    /\ buf = <<65>> /\ symbol_name = <<"s","y","m">>
    /\ out_src = <<"n","a","m","e","s","p","a","c","e"," ","n","s","{","c","o","n","s","t","e","x","p","r"," ","c","o","n","s","t"," ","c","h","a","r","*"," ","s","y","m"," ","="," ","\"","A","\"",";","}","\n">>

\* C7: without a namespace the text-mode output is exactly
\* `constexpr const char* <symbol> = "<escaped text>";` and one line
\* terminator, with no include directive; the binary-mode output is exactly
\* the two include lines,
\* `constexpr std::array<std::uint8_t,<n>> <symbol>{<elements>};` and one
\* line terminator.  The bytes 0x41 0x42 with symbol `sym` give "AB" in text
\* mode and size 2 with {0x41,0x42} in binary mode.
C7_ExactOutput ==
    (HasOutSrc /\ cli_args.namespace = None) =>
        IF BinaryMode
        THEN /\ out_src = <<"#","i","n","c","l","u","d","e"," ","<","a","r","r","a","y",">">> \o LINE_ENDING
                            \o <<"#","i","n","c","l","u","d","e"," ","<","c","s","t","d","i","n","t",">">> \o LINE_ENDING
                            \o <<"c","o","n","s","t","e","x","p","r"," ","s","t","d",":",":","a","r","r","a","y","<","s","t","d",":",":","u","i","n","t","8","_","t",",">>
                            \o DeclaredSizeText(out_src) \o <<">"," ">> \o symbol_name
                            \o <<"{">> \o formatted \o <<"}",";">> \o LINE_ENDING
             /\ AllIn(DeclaredSizeText(out_src), DecimalChars)
             /\ EvalLiteral(DeclaredSizeText(out_src)) = Len(buf)
             /\ LineFeeds(out_src) = 3
             /\ ((buf = <<65, 66>> /\ symbol_name = <<"s","y","m">>) =>
                   out_src = <<"#","i","n","c","l","u","d","e"," ","<","a","r","r","a","y",">">> \o LINE_ENDING
                               \o <<"#","i","n","c","l","u","d","e"," ","<","c","s","t","d","i","n","t",">">> \o LINE_ENDING
                               \o <<"c","o","n","s","t","e","x","p","r"," ","s","t","d",":",":","a","r","r","a","y","<","s","t","d",":",":","u","i","n","t","8","_","t",",","2",">"," ","s","y","m","{","0","x","4","1",",","0","x","4","2","}",";">>
                               \o LINE_ENDING)
        ELSE /\ out_src = <<"c","o","n","s","t","e","x","p","r"," ","c","o","n","s","t"," ","c","h","a","r","*"," ">> \o symbol_name \o <<" ","="," ","\"">>
                            \o formatted \o <<"\"",";">> \o LINE_ENDING
             /\ LineFeeds(out_src) = 1
             /\ \A i \in 1..Len(Lines(out_src)) : ~StartsWith(Lines(out_src)[i], <<"#","i","n","c","l","u","d","e">>)
             /\ ((buf = <<65, 66>> /\ symbol_name = <<"s","y","m">>) =>
                   out_src = <<"c","o","n","s","t","e","x","p","r"," ","c","o","n","s","t"," ","c","h","a","r","*"," ","s","y","m"," ","="," ","\"","A","B","\"",";">> \o LINE_ENDING)

C7_Witness ==
    /\ HasOutSrc /\ cli_args.namespace = None /\ BinaryMode /\ ~windows
    /\ buf = <<65, 66>> /\ symbol_name = <<"s","y","m">>
    /\ out_src = <<"#","i","n","c","l","u","d","e"," ","<","a","r","r","a","y",">","\n","#","i","n","c","l","u","d","e"," ","<","c","s","t","d","i","n","t",">","\n","c","o","n","s","t","e","x","p","r"," ","s","t","d",":",":","a","r","r","a","y","<","s","t","d",":",":","u","i","n","t","8","_","t",",","2",">"," ","s","y","m","{","0","x","4","1",",","0","x","4","2","}",";","\n">>

----------------------------------------------------------------------------
(* The output file *)

\* main has gone past the creation of the output file
PastOpenOutput == HasOutSrc /\ pc # "open_output"

\* the messages of the failures that come before the creation of the output
EarlyMessages ==
    { "file path does not exist",
      "file path is not a file",
      "environment's current working directory is unavailable",
      "input file path does not contain a valid filename",
      "failed to open input file for reading",
      "failed read input file",
      "panicked: called Result::unwrap() on an Err value" }

\* C8: when a file exists at the output path, given or default (the input
\* file itself included), as the run reaches the creation of the output,
\* the creation fails, the run ends with a failure status and the file
\* system is as it was.
C8_NeverOverwrite ==
    (PastOpenOutput /\ IsSome(fs0[Unwrap(output_path)])) =>
        /\ pc = "done"
        /\ exit = "FAILURE"
        /\ stderr = <<"failed to open output file for writing">>
        /\ fs = fs0

C8_Witness ==
    /\ PastOpenOutput
    /\ cli_args.output_path = None
    /\ Unwrap(output_path) = cli_args.input_path
    /\ exit = "FAILURE"
    /\ fs[cli_args.input_path] = Some(File(buf))

\* C9: the run exits with a success status only when the whole declaration
\* text has been written to the output file, and a write that fails ends
\* the run with one line on the error stream and a failure status.
C9_WriteFailureReported ==
    /\ exit = "SUCCESS" =>
          fs[Unwrap(output_path)] = Some(File(as_bytes(out_src)))
    /\ (pc = "done" /\ PastOpenOutput /\ IsSome(fs[Unwrap(output_path)])
          /\ fs0[Unwrap(output_path)] = None
          /\ fs[Unwrap(output_path)] # Some(File(as_bytes(out_src)))) =>
          (exit = "FAILURE" /\ Len(stderr) = 1)

\* C10: the file system changes only once the input has been read and
\* formatted and the declaration generated, and a run that ends in one of
\* the failures before the creation of the output leaves the file system as
\* it was: no file created, nothing written.
C10_NoOutputOnEarlyFailure ==
    /\ (fs # fs0) => (HasOutSrc /\ pc \in {"write", "return", "done"})
    /\ (exit \in {"FAILURE", "PANIC"} /\ stderr[Len(stderr)] \in EarlyMessages) =>
          (fs = fs0 /\ Len(stderr) = 1)

C10_Witness ==
    /\ exit = "PANIC"
    /\ ~BinaryMode
    /\ buf = <<255>>
    /\ fs = fs0
    /\ fs[Path("cwd", <<"a",".","h","p","p">>)] = None

====
